---- MODULE Spec2Model ----
(***************************************************************************)
(* A model of wm-rs (src/src/main.rs): a reparenting X11 window manager.   *)
(* The state is the WindowManager struct (clients, drag_pos_start,         *)
(* drag_frame_pos), the position of run() in its code, and the part of the *)
(* X server the manager talks to: the window tree, the save-set, the       *)
(* passive grabs, the pointer and the queue of events sent to the manager. *)
(* frame() and unframe() are modelled one Xlib request per step, so that   *)
(* the state between two requests is a state of the model.                 *)
(***************************************************************************)
EXTENDS Integers, Sequences, FiniteSets, TLC

\* Bounds of the model.
NumClients == 2
MaxFrames == 3
MaxQueue == 1
MaxCoord == 1
MaxConfigures == 1

\* BORDER_WIDTH of frame().
BORDER_WIDTH == 3

\* The root window, and the id that stands for no window (Option::None, 0 in Xlib)
Root == 0
None == -1
\* drag_pos_start / drag_frame_pos when None
NoDrag == <<>>
Button1 == "Button1"
Buttons == {Button1, "Button2"}
Mod1 == "Mod1"
\* The keys the manager grabs: XK_Q, XK_Tab on clients, XK_space on the root
Keys == {"Q", "Tab", "space"}

Clients == 1..NumClients
FrameIds == {NumClients + i : i \in 1..MaxFrames}
\* The screen: the positions the pointer can take
Positions == {<<i, i>> : i \in 0..MaxCoord}

\* The fields of XWindowChanges, named as the value-mask bits that select them.
Fields == {"x", "y", "width", "height", "border_width", "sibling", "stack_mode"}

VARIABLES
    \* ---- the X server ----
    alive,              \* client windows that exist
    parent,             \* parent of each client window: Root or a frame
    mapped,             \* client windows whose map state is mapped
    override,           \* client windows with override_redirect set
    saveSet,            \* the manager's save-set
    frames,             \* frame windows that exist
    fmapped,            \* frame windows that are mapped
    geom,               \* geometry of every window
    queue,              \* events sent to the manager, not yet read by XNextEvent
    grabbed,            \* client windows carrying the manager's passive grabs
    ptrGrab,            \* window of the active pointer grab, or None
    buttons,            \* pointer buttons held down during the active grab
    ptr,                \* position of the pointer on the root
    focus,              \* input focus
    raised,             \* the window last raised to the top
    other_wm,           \* another manager owns the root's redirection
    kbdGrab,            \* active keyboard grab: <<window, key>>, or <<>>
    configures,         \* number of configure requests clients have made
    \* ---- WindowManager ----
    clients,            \* ClientList: sequence of <<client, frame>>
    drag_pos_start,
    drag_frame_pos,
    WM_DETECTED,
    pc,                 \* where run() stands
    cur,                \* locals of the frame()/unframe() call in progress
    top_level_windows,  \* XQueryTree's result
    scan_i,             \* loop index of the startup scan
    nextFrame,          \* number of frame windows created so far
    \* ---- history ----
    last                \* the last step the manager took

serverVars == <<alive, parent, mapped, override, saveSet, frames, fmapped, geom,
                queue, grabbed, ptrGrab, buttons, ptr, focus, raised, other_wm, kbdGrab,
                configures>>
wmVars == <<clients, drag_pos_start, drag_frame_pos, WM_DETECTED, pc, cur,
            top_level_windows, scan_i, nextFrame>>
vars == <<serverVars, wmVars, last>>

----------------------------------------------------------------------------
\* ClientList (src/src/main.rs 25-66)

RECURSIVE find(_, _, _)
\* index (from 1) of the first entry of list from position i on whose client is w, or 0
find(list, w, i) ==
    IF i > Len(list) THEN 0
    ELSE IF list[i][1] = w THEN i
    ELSE find(list, w, i + 1)

contains(list, w) == find(list, w, 1) # 0

get(list, w) == IF find(list, w, 1) = 0 THEN None ELSE list[find(list, w, 1)][2]

\* (mutant) insert putting the new entry first
insert_front(list, w, f) == <<<<w, f>>>> \o list

insert(list, w, f) == Append(list, <<w, f>>)

\* (mutant) remove taking out the last entry instead of the one found
remove_last(list, w) ==
    LET i == find(list, w, 1) IN
    IF i = 0 THEN list
    ELSE SubSeq(list, 1, Len(list) - 1)

remove(list, w) ==
    LET i == find(list, w, 1) IN
    IF i = 0 THEN list
    ELSE SubSeq(list, 1, i - 1) \o SubSeq(list, i + 1, Len(list))

----------------------------------------------------------------------------
\* The X server

NoGeom == [x |-> 0, y |-> 0, width |-> 0, height |-> 0, border_width |-> 0,
           sibling |-> None, stack_mode |-> "None"]

ClientGeom == [x |-> 0, y |-> 0, width |-> 1, height |-> 1, border_width |-> 0,
               sibling |-> None, stack_mode |-> "None"]

\* map_state == IsViewable: mapped, and every ancestor mapped
Viewable(w) ==
    /\ w \in alive
    /\ w \in mapped
    /\ (parent[w] = Root \/ parent[w] \in fmapped)

WindowExists(win) == win = Root \/ win \in alive \/ win \in frames

UnmapNotifyEvent(ev, w) == [type |-> "UnmapNotify", event |-> ev, window |-> w]

\* Frames are children of the root (src/src/main.rs 339-341).
ParentOf(win) == IF win \in frames THEN Root ELSE parent[win]

\* ConfigureWindow is a Match error when a sibling is given without a stack
\* mode or when the sibling is not a sibling of the window, and a Window error
\* when the window is gone.
ConfigureOk(win, mask, changes) ==
    /\ win \in alive \/ win \in frames
    /\ "sibling" \in mask =>
          /\ "stack_mode" \in mask
          /\ changes.sibling # win
          /\ changes.sibling \in alive \/ changes.sibling \in frames
          /\ ParentOf(changes.sibling) = ParentOf(win)

\* XConfigureWindow: the fields the mask selects take the requested values;
\* a request that is an error changes nothing.
XConfigureWindow(g, win, mask, changes) ==
    IF ConfigureOk(win, mask, changes)
    THEN [g EXCEPT ![win] = [fld \in Fields |->
                                IF fld \in mask THEN changes[fld] ELSE @[fld]]]
    ELSE g

\* XMoveWindow
XMoveWindow(g, win, x, y) ==
    XConfigureWindow(g, win, {"x", "y"}, [NoGeom EXCEPT !.x = x, !.y = y])

\* The active pointer grab ends when its window stops being viewable.
GrabAfterUnviewable(ws) == IF ptrGrab \in ws THEN None ELSE ptrGrab
ButtonsAfterUnviewable(ws) == IF ptrGrab \in ws THEN {} ELSE buttons

\* Closing the manager's connection: every save-set window below a frame goes
\* back to the root and is mapped, then the manager's windows are destroyed
\* with what is still inside them, and its grabs are gone.
CloseDown ==
    LET saved == {w \in alive : w \in saveSet /\ parent[w] # Root}
        lost == {w \in alive : w \notin saveSet /\ parent[w] # Root}
    IN  /\ alive' = alive \ lost
        /\ parent' = [w \in Clients |-> IF w \in saved THEN Root ELSE parent[w]]
        /\ mapped' = (mapped \cup saved) \ lost
        /\ saveSet' = {}
        /\ frames' = {}
        /\ fmapped' = {}
        /\ geom' = [win \in DOMAIN geom |-> IF win \in frames THEN NoGeom ELSE geom[win]]
        /\ queue' = <<>>
        /\ grabbed' = {}
        /\ ptrGrab' = None
        /\ buttons' = {}
        /\ focus' = IF focus \in lost THEN None ELSE focus
        /\ raised' = IF raised \in frames THEN None ELSE raised
        /\ kbdGrab' = <<>>
        /\ UNCHANGED <<override, other_wm, configures, ptr>>

\* A failed assert! or unwrap(): the process unwinds and its connection closes.
\* The memory of a dead process is gone.
Gone ==
    /\ clients' = <<>>
    /\ drag_pos_start' = NoDrag
    /\ drag_frame_pos' = NoDrag
    /\ cur' = [w |-> None, frame |-> None, created_before_wm |-> FALSE]
    /\ top_level_windows' = <<>>
    /\ scan_i' = 0
    /\ nextFrame' = 0
    /\ UNCHANGED WM_DETECTED

Panic(op, w, cause) ==
    /\ pc' = "panicked"
    /\ last' = [op |-> op, w |-> w, note |-> cause]
    /\ CloseDown
    /\ Gone

----------------------------------------------------------------------------
Init ==
    /\ alive = Clients
    /\ parent = [w \in Clients |-> Root]
    /\ mapped \in SUBSET Clients
    /\ override \in SUBSET Clients
    /\ saveSet = {}
    /\ frames = {}
    /\ fmapped = {}
    /\ geom = [win \in Clients \cup FrameIds |->
                  IF win \in Clients THEN ClientGeom ELSE NoGeom]
    /\ queue = <<>>
    /\ grabbed = {}
    /\ ptrGrab = None
    /\ buttons = {}
    /\ ptr = <<0, 0>>
    /\ focus = None
    /\ raised = None
    /\ other_wm \in BOOLEAN
    /\ kbdGrab = <<>>
    /\ configures = 0
    /\ clients = <<>>
    /\ drag_pos_start = NoDrag
    /\ drag_frame_pos = NoDrag
    /\ WM_DETECTED = FALSE
    /\ cur = [w |-> None, frame |-> None, created_before_wm |-> FALSE]
    /\ top_level_windows = <<>>
    /\ scan_i = 0
    /\ nextFrame = 0
    \* XOpenDisplay gave a connection, or new() returned None and main panicked
    /\ \/ /\ pc = "start"
          /\ last = [op |-> "new", w |-> None, note |-> "done"]
       \/ /\ pc = "panicked"
          /\ last = [op |-> "main", w |-> None, note |-> "XOpenDisplay"]

----------------------------------------------------------------------------
\* Xlib requests used by frame() and unframe()

\* (mutant) frame() without its XAddToSaveSet
XAddToSaveSet_forgotten(s, w) == s

\* XAddToSaveSet / XRemoveFromSaveSet: BadWindow when w is gone
XAddToSaveSet(s, w) == IF w \in alive THEN s \cup {w} ELSE s
XRemoveFromSaveSet(s, w) == s \ {w}

\* XReparentWindow(w, p, 0, 0): an error when w or p is gone. A mapped w is
\* unmapped first (UnmapNotify goes to the old parent, on which the manager
\* selected SubstructureNotify), moved, and mapped again in its new parent.
XReparentWindow(w, p) ==
    IF w \in alive /\ WindowExists(p)
    THEN /\ parent' = [parent EXCEPT ![w] = p]
         /\ geom' = [geom EXCEPT ![w].x = 0, ![w].y = 0]
         /\ queue' = IF w \in mapped
                     THEN Append(queue, UnmapNotifyEvent(parent[w], w))
                     ELSE queue
         /\ ptrGrab' = IF w \in mapped THEN GrabAfterUnviewable({w}) ELSE ptrGrab
         /\ buttons' = IF w \in mapped THEN ButtonsAfterUnviewable({w}) ELSE buttons
    ELSE UNCHANGED <<parent, geom, queue, ptrGrab, buttons>>

----------------------------------------------------------------------------
\* run(): startup (src/src/main.rs 116-174)

RECURSIVE Perms(_)
Perms(S) ==
    IF S = {} THEN {<<>>}
    ELSE UNION {{<<x>> \o p : p \in Perms(S \ {x})} : x \in S}

\* (mutant) run() without the test of WM_DETECTED after the probe
run_probe_goesOn ==
    /\ pc = "start"
    /\ WM_DETECTED' = other_wm
    /\ pc' = "query"
    /\ last' = [op |-> "run", w |-> None, note |-> "probe_ok"]
    /\ UNCHANGED <<serverVars, clients, drag_pos_start, drag_frame_pos, cur,
                   top_level_windows, scan_i, nextFrame>>

\* XSetErrorHandler(on_wm_detected), XSelectInput on the root, XSync: BadAccess
\* when another client holds SubstructureRedirect on the root.
run_probe ==
    /\ pc = "start"
    /\ IF other_wm
       THEN /\ WM_DETECTED' = TRUE
            /\ pc' = "exited"
            /\ last' = [op |-> "run", w |-> None, note |-> "wm_detected"]
       ELSE /\ WM_DETECTED' = FALSE
            /\ pc' = "query"
            /\ last' = [op |-> "run", w |-> None, note |-> "probe_ok"]
    /\ UNCHANGED <<serverVars, clients, drag_pos_start, drag_frame_pos, cur,
                   top_level_windows, scan_i, nextFrame>>

\* XGrabServer, XQueryTree: the children of the root, in the server's order
run_query ==
    /\ pc = "query"
    /\ top_level_windows' \in Perms({w \in alive : parent[w] = Root})
    /\ scan_i' = 1
    /\ pc' = "scan"
    /\ last' = [op |-> "run", w |-> None, note |-> "query"]
    /\ UNCHANGED <<serverVars, clients, drag_pos_start, drag_frame_pos, WM_DETECTED,
                   cur, nextFrame>>

\* (mutant) the skip test without the map state
skips_overrideOnly(w, created_before_wm) ==
    created_before_wm /\ w \in override

\* frame(): a window that existed before the manager is left alone when it is
\* override_redirect or not viewable (src/src/main.rs 332-336)
skips(w, created_before_wm) ==
    created_before_wm /\ (w \in override \/ ~Viewable(w))

\* frame(): XGetWindowAttributes, the skip of the startup scan, XCreateSimpleWindow
\* and XSelectInput on the frame (src/src/main.rs 318-355)
frame_begin(w, created_before_wm, q) ==
    IF w \notin alive
    THEN Panic("frame", w, "XGetWindowAttributes")
    ELSE IF skips(w, created_before_wm)
    THEN /\ pc' = "scan"
         /\ scan_i' = scan_i + 1
         /\ last' = [op |-> "frame", w |-> w, note |-> "skipped"]
         /\ queue' = q
         /\ UNCHANGED <<alive, parent, mapped, override, saveSet, frames, fmapped, geom,
                        grabbed, ptrGrab, buttons, focus, raised, other_wm, kbdGrab, configures, ptr,
                        clients, drag_pos_start, drag_frame_pos, WM_DETECTED, cur,
                        top_level_windows, nextFrame>>
    ELSE LET frame == NumClients + nextFrame + 1 IN
         /\ frames' = frames \cup {frame}
         /\ nextFrame' = nextFrame + 1
         /\ geom' = [geom EXCEPT ![frame] =
                        [x |-> geom[w].x, y |-> geom[w].y,
                         width |-> geom[w].width, height |-> geom[w].height,
                         border_width |-> BORDER_WIDTH,
                         sibling |-> None, stack_mode |-> "None"]]
         /\ cur' = [w |-> w, frame |-> frame, created_before_wm |-> created_before_wm]
         /\ pc' = "frame_save"
         /\ last' = [op |-> "frame", w |-> w, note |-> "created"]
         /\ queue' = q
         /\ UNCHANGED <<alive, parent, mapped, override, saveSet, fmapped,
                        grabbed, ptrGrab, buttons, focus, raised, other_wm, kbdGrab, configures, ptr,
                        clients, drag_pos_start, drag_frame_pos, WM_DETECTED,
                        top_level_windows, scan_i>>

\* the startup scan's loop, then XUngrabServer and the grab of Mod1+space on the root
run_scan ==
    /\ pc = "scan"
    /\ IF scan_i <= Len(top_level_windows)
       THEN frame_begin(top_level_windows[scan_i], TRUE, queue)
       ELSE /\ pc' = "idle"
            /\ grabbed' = grabbed \cup {Root}
            /\ last' = [op |-> "run", w |-> None, note |-> "scanned"]
            /\ UNCHANGED <<alive, parent, mapped, override, saveSet, frames, fmapped,
                           geom, queue, ptrGrab, buttons, ptr, focus, raised,
                           other_wm, kbdGrab, configures,
                           clients, drag_pos_start, drag_frame_pos,
                           WM_DETECTED, cur, top_level_windows, scan_i, nextFrame>>

\* frame(): XAddToSaveSet (src/src/main.rs 356)
frame_save ==
    /\ pc = "frame_save"
    /\ saveSet' = XAddToSaveSet(saveSet, cur.w)
    /\ pc' = "frame_reparent"
    /\ last' = [op |-> "frame", w |-> cur.w, note |-> "XAddToSaveSet"]
    /\ UNCHANGED <<alive, parent, mapped, override, frames, fmapped, geom, queue,
                   grabbed, ptrGrab, buttons, focus, raised, other_wm, kbdGrab, configures, ptr,
                   clients, drag_pos_start, drag_frame_pos, WM_DETECTED, cur,
                   top_level_windows, scan_i, nextFrame>>

\* frame(): XReparentWindow into the frame (src/src/main.rs 357)
frame_reparent ==
    /\ pc = "frame_reparent"
    /\ XReparentWindow(cur.w, cur.frame)
    /\ pc' = "frame_finish"
    /\ last' = [op |-> "frame", w |-> cur.w, note |-> "XReparentWindow"]
    /\ UNCHANGED <<alive, mapped, override, saveSet, frames, fmapped,
                   grabbed, focus, raised, other_wm, kbdGrab, configures, ptr,
                   clients, drag_pos_start, drag_frame_pos, WM_DETECTED, cur,
                   top_level_windows, scan_i, nextFrame>>

\* frame(): XMapWindow(frame), clients.insert, the key and button grabs on the
\* client (src/src/main.rs 358-366); then back to the caller
frame_finish ==
    /\ pc = "frame_finish"
    /\ fmapped' = fmapped \cup {cur.frame}
    /\ clients' = insert(clients, cur.w, cur.frame)
    /\ grabbed' = IF cur.w \in alive THEN grabbed \cup {cur.w} ELSE grabbed
    /\ IF cur.created_before_wm
       THEN pc' = "scan" /\ scan_i' = scan_i + 1
       ELSE pc' = "map_window" /\ scan_i' = scan_i
    /\ last' = [op |-> "frame", w |-> cur.w, note |-> "framed"]
    /\ UNCHANGED <<alive, parent, mapped, override, saveSet, frames, geom, queue,
                   ptrGrab, buttons, focus, raised, other_wm, kbdGrab, configures, ptr,
                   drag_pos_start, drag_frame_pos, WM_DETECTED, cur,
                   top_level_windows, nextFrame>>

----------------------------------------------------------------------------
\* The event loop (src/src/main.rs 176-199): one action per handler

Dispatch(type) ==
    /\ pc = "idle"
    /\ queue # <<>>
    /\ Head(queue).type = type

\* on_map_request: frame(e.window, false) ... (src/src/main.rs 403-404)
on_map_request ==
    /\ Dispatch("MapRequest")
    /\ frame_begin(Head(queue).window, FALSE, Tail(queue))

\* ... then XMapWindow(e.window) (src/src/main.rs 406-409)
map_window ==
    /\ pc = "map_window"
    /\ mapped' = IF cur.w \in alive THEN mapped \cup {cur.w} ELSE mapped
    /\ pc' = "idle"
    /\ last' = [op |-> "on_map_request", w |-> cur.w, note |-> "XMapWindow"]
    /\ UNCHANGED <<alive, parent, override, saveSet, frames, fmapped, geom, queue,
                   grabbed, ptrGrab, buttons, focus, raised, other_wm, kbdGrab, configures, ptr,
                   clients, drag_pos_start, drag_frame_pos, WM_DETECTED, cur,
                   top_level_windows, scan_i, nextFrame>>

\* unframe(): the lookup and XUnmapWindow(frame) (src/src/main.rs 412-416)
unframe_begin(w, q) ==
    LET frame == get(clients, w) IN
    IF frame = None
    THEN Panic("unframe", w, "unwrap")
    ELSE /\ fmapped' = fmapped \ {frame}
         /\ ptrGrab' = GrabAfterUnviewable({c \in alive : parent[c] = frame})
         /\ buttons' = ButtonsAfterUnviewable({c \in alive : parent[c] = frame})
         /\ cur' = [w |-> w, frame |-> frame, created_before_wm |-> FALSE]
         /\ pc' = "unframe_reparent"
         \* the root's SubstructureNotify reports the frame's unmapping
         /\ queue' = IF frame \in fmapped
                     THEN Append(q, UnmapNotifyEvent(Root, frame))
                     ELSE q
         /\ last' = [op |-> "unframe", w |-> w, note |-> "XUnmapWindow"]
         /\ UNCHANGED <<alive, parent, mapped, override, saveSet, frames, geom,
                        grabbed, focus, raised, other_wm, kbdGrab, configures, ptr,
                        clients, drag_pos_start, drag_frame_pos, WM_DETECTED,
                        top_level_windows, scan_i, nextFrame>>

\* (mutant) on_unmap_notify without the test of the event window
on_unmap_notify_anyEventWindow ==
    /\ Dispatch("UnmapNotify")
    /\ LET e == Head(queue) IN
       IF contains(clients, e.window)
       THEN unframe_begin(e.window, Tail(queue))
       ELSE /\ queue' = Tail(queue)
            /\ last' = [op |-> "on_unmap_notify", w |-> e.window,
                        note |-> "ignored_unregistered"]
            /\ UNCHANGED <<alive, parent, mapped, override, saveSet, frames, fmapped,
                           geom, grabbed, ptrGrab, buttons, ptr, focus, raised,
                           other_wm, kbdGrab, configures, wmVars>>

\* on_unmap_notify (src/src/main.rs 426-430)
on_unmap_notify ==
    /\ Dispatch("UnmapNotify")
    /\ LET e == Head(queue) IN
       IF e.event # Root /\ contains(clients, e.window)
       THEN unframe_begin(e.window, Tail(queue))
       ELSE /\ queue' = Tail(queue)
            /\ last' = [op |-> "on_unmap_notify", w |-> e.window,
                        note |-> IF e.event = Root THEN "ignored_root"
                                 ELSE "ignored_unregistered"]
            /\ UNCHANGED <<alive, parent, mapped, override, saveSet, frames, fmapped,
                           geom, grabbed, ptrGrab, buttons, focus, raised, other_wm, kbdGrab, configures, ptr,
                           wmVars>>

\* (mutant) unframe() taking the client out of the save-set in the same step
\* that reparents it
unframe_reparent_unsaves ==
    /\ pc = "unframe_reparent"
    /\ XReparentWindow(cur.w, Root)
    /\ saveSet' = XRemoveFromSaveSet(saveSet, cur.w)
    /\ pc' = "unframe_unsave"
    /\ last' = [op |-> "unframe", w |-> cur.w, note |-> "XReparentWindow"]
    /\ UNCHANGED <<alive, mapped, override, frames, fmapped,
                   grabbed, focus, raised, other_wm, kbdGrab, configures, ptr,
                   clients, drag_pos_start, drag_frame_pos, WM_DETECTED, cur,
                   top_level_windows, scan_i, nextFrame>>

\* unframe(): XReparentWindow back to the root (src/src/main.rs 417)
unframe_reparent ==
    /\ pc = "unframe_reparent"
    /\ XReparentWindow(cur.w, Root)
    /\ pc' = "unframe_unsave"
    /\ last' = [op |-> "unframe", w |-> cur.w, note |-> "XReparentWindow"]
    /\ UNCHANGED <<alive, mapped, override, saveSet, frames, fmapped,
                   grabbed, focus, raised, other_wm, kbdGrab, configures, ptr,
                   clients, drag_pos_start, drag_frame_pos, WM_DETECTED, cur,
                   top_level_windows, scan_i, nextFrame>>

\* unframe(): XRemoveFromSaveSet (src/src/main.rs 418)
unframe_unsave ==
    /\ pc = "unframe_unsave"
    /\ saveSet' = XRemoveFromSaveSet(saveSet, cur.w)
    /\ pc' = "unframe_destroy"
    /\ last' = [op |-> "unframe", w |-> cur.w, note |-> "XRemoveFromSaveSet"]
    /\ UNCHANGED <<alive, parent, mapped, override, frames, fmapped, geom, queue,
                   grabbed, ptrGrab, buttons, focus, raised, other_wm, kbdGrab, configures, ptr,
                   clients, drag_pos_start, drag_frame_pos, WM_DETECTED, cur,
                   top_level_windows, scan_i, nextFrame>>

\* unframe(): XDestroyWindow(frame), which destroys what is inside the frame
\* with it, and clients.remove (src/src/main.rs 419-422)
unframe_destroy ==
    /\ pc = "unframe_destroy"
    /\ LET inside == {c \in alive : parent[c] = cur.frame} IN
       /\ alive' = alive \ inside
       /\ mapped' = mapped \ inside
       /\ saveSet' = saveSet \ inside
       /\ grabbed' = grabbed \ inside
       /\ focus' = IF focus \in inside THEN None ELSE focus
    /\ frames' = frames \ {cur.frame}
    /\ fmapped' = fmapped \ {cur.frame}
    /\ geom' = [geom EXCEPT ![cur.frame] = NoGeom]
    /\ raised' = IF raised = cur.frame THEN None ELSE raised
    /\ clients' = remove(clients, cur.w)
    /\ pc' = "idle"
    /\ last' = [op |-> "unframe", w |-> cur.w, note |-> "unframed"]
    /\ UNCHANGED <<parent, override, queue, ptrGrab, buttons, other_wm, kbdGrab, configures, ptr,
                   drag_pos_start, drag_frame_pos, WM_DETECTED, cur,
                   top_level_windows, scan_i, nextFrame>>

\* on_configure_request (src/src/main.rs 432-464)
on_configure_request ==
    /\ Dispatch("ConfigureRequest")
    /\ LET e == Head(queue)
           frame == get(clients, e.window)
           g1 == IF frame # None
                 THEN XConfigureWindow(geom, frame, e.value_mask, e.changes)
                 ELSE geom
       IN  /\ geom' = XConfigureWindow(g1, e.window, e.value_mask, e.changes)
           /\ last' = [op |-> "on_configure_request", w |-> e.window,
                       note |-> "configured"]
    /\ queue' = Tail(queue)
    /\ UNCHANGED <<alive, parent, mapped, override, saveSet, frames, fmapped,
                   grabbed, ptrGrab, buttons, focus, raised, other_wm, kbdGrab, configures, ptr,
                   wmVars>>

\* on_button_pressed (src/src/main.rs 224-261)
on_button_pressed ==
    /\ Dispatch("ButtonPress")
    /\ LET e == Head(queue)
           frame == get(clients, e.window)
       IN  IF ~contains(clients, e.window)
           THEN Panic("on_button_pressed", e.window, "assert")
           ELSE /\ drag_pos_start' = <<e.x_root, e.y_root>>
                \* XGetGeometry: x and y stay 0 when the request fails
                /\ drag_frame_pos' = IF frame \in frames
                                     THEN <<geom[frame].x, geom[frame].y>>
                                     ELSE <<0, 0>>
                /\ raised' = IF frame \in frames THEN frame ELSE raised
                \* XSetInputFocus: BadMatch unless the window is viewable
                /\ focus' = IF Viewable(e.window) THEN e.window ELSE focus
                /\ queue' = Tail(queue)
                /\ last' = [op |-> "on_button_pressed", w |-> e.window,
                            note |-> "pressed"]
                /\ UNCHANGED <<alive, parent, mapped, override, saveSet, frames,
                               fmapped, geom, grabbed, ptrGrab, buttons, other_wm, kbdGrab, configures, ptr,
                               clients, WM_DETECTED, pc, cur, top_level_windows,
                               scan_i, nextFrame>>

\* on_button_released (src/src/main.rs 263-266)
on_button_released ==
    /\ Dispatch("ButtonRelease")
    /\ drag_frame_pos' = NoDrag
    /\ drag_pos_start' = NoDrag
    /\ queue' = Tail(queue)
    /\ last' = [op |-> "on_button_released", w |-> Head(queue).window, note |-> "done"]
    /\ UNCHANGED <<alive, parent, mapped, override, saveSet, frames, fmapped, geom,
                   grabbed, ptrGrab, buttons, focus, raised, other_wm, kbdGrab, configures, ptr,
                   clients, WM_DETECTED, pc, cur, top_level_windows, scan_i,
                   nextFrame>>

\* on_motion_notify (src/src/main.rs 202-222)
on_motion_notify ==
    /\ Dispatch("MotionNotify")
    /\ LET e == Head(queue)
           frame == get(clients, e.window)
       IN  IF ~contains(clients, e.window)
           THEN Panic("on_motion_notify", e.window, "assert_contains")
           ELSE IF drag_pos_start = NoDrag \/ drag_frame_pos = NoDrag
           THEN Panic("on_motion_notify", e.window, "assert_drag")
           ELSE LET delta == <<e.x_root - drag_pos_start[1],
                               e.y_root - drag_pos_start[2]>>
                    new_frame_pos == <<drag_frame_pos[1] + delta[1],
                                       drag_frame_pos[2] + delta[2]>>
                IN  /\ geom' = IF Button1 \in e.state
                               THEN XMoveWindow(geom, frame, new_frame_pos[1],
                                                new_frame_pos[2])
                               ELSE geom
                    /\ queue' = Tail(queue)
                    /\ last' = [op |-> "on_motion_notify", w |-> e.window,
                                note |-> IF Button1 \in e.state THEN "moved" ELSE "still"]
                    /\ UNCHANGED <<alive, parent, mapped, override, saveSet, frames,
                                   fmapped, grabbed, ptrGrab, buttons, focus, raised,
                                   other_wm, kbdGrab, configures, ptr, wmVars>>

\* XKillClient(w): the server closes the connection of the client that owns w
\* and destroys its window; a Value error for the root or a window that is gone.
XKillClient(w, q) ==
    IF w \in alive
    THEN /\ alive' = alive \ {w}
         /\ mapped' = mapped \ {w}
         /\ saveSet' = saveSet \ {w}
         /\ grabbed' = grabbed \ {w}
         /\ queue' = (IF w \in mapped
                      THEN Append(q, UnmapNotifyEvent(parent[w], w))
                      ELSE q)
                     \o <<[type |-> "DestroyNotify", event |-> parent[w], window |-> w]>>
         /\ ptrGrab' = GrabAfterUnviewable({w})
         /\ buttons' = ButtonsAfterUnviewable({w})
         /\ focus' = IF focus = w THEN None ELSE focus
    ELSE /\ queue' = q
         /\ UNCHANGED <<alive, mapped, saveSet, grabbed, ptrGrab, buttons, focus>>

\* The entry the cycle key goes to: find(e.window), (i + 1) % len(), index(i)
\* (src/src/main.rs 296-298), with the Vec's indices from 0.
cycle_target(list, w) ==
    LET i == find(list, w, 1) - 1
        j == (i + 1) % Len(list)
    IN  list[j + 1]

\* on_key_pressed (src/src/main.rs 268-312)
on_key_pressed ==
    /\ Dispatch("KeyPress")
    /\ LET e == Head(queue) IN
       IF e.keycode = "Q"
       THEN /\ XKillClient(e.window, Tail(queue))
            /\ last' = [op |-> "on_key_pressed", w |-> e.window, note |-> "killed"]
            /\ UNCHANGED <<parent, override, frames, fmapped, geom, raised,
                           other_wm, kbdGrab, configures, ptr, wmVars>>
       ELSE IF Mod1 \in e.state /\ e.keycode = "Tab"
       THEN IF ~contains(clients, e.window)
            THEN Panic("on_key_pressed", e.window, "unwrap")
            ELSE LET w == cycle_target(clients, e.window)[1]
                     f == cycle_target(clients, e.window)[2]
                 IN  /\ raised' = IF f \in frames THEN f ELSE raised
                     \* XSetInputFocus: BadMatch unless the window is viewable
                     /\ focus' = IF Viewable(w) THEN w ELSE focus
                     /\ queue' = Tail(queue)
                     /\ last' = [op |-> "on_key_pressed", w |-> e.window,
                                 note |-> "cycled"]
                     /\ UNCHANGED <<alive, parent, mapped, override, saveSet, frames,
                                    fmapped, geom, grabbed, ptrGrab, buttons,
                                    other_wm, kbdGrab, configures, ptr, wmVars>>
       ELSE IF Mod1 \in e.state /\ e.keycode = "space"
       THEN \* Command::new(..).spawn().unwrap(): the launcher starts, or is missing
            \/ /\ queue' = Tail(queue)
               /\ last' = [op |-> "on_key_pressed", w |-> e.window,
                           note |-> "launched"]
               /\ UNCHANGED <<alive, parent, mapped, override, saveSet, frames,
                              fmapped, geom, grabbed, ptrGrab, buttons, focus, raised,
                              other_wm, kbdGrab, configures, ptr, wmVars>>
            \/ Panic("on_key_pressed", e.window, "spawn")
       ELSE /\ queue' = Tail(queue)
            /\ last' = [op |-> "on_key_pressed", w |-> e.window, note |-> "ignored"]
            /\ UNCHANGED <<alive, parent, mapped, override, saveSet, frames,
                           fmapped, geom, grabbed, ptrGrab, buttons, focus, raised,
                           other_wm, kbdGrab, configures, ptr, wmVars>>

\* on_key_released (src/src/main.rs 314-316): a log line
on_key_released ==
    /\ Dispatch("KeyRelease")
    /\ queue' = Tail(queue)
    /\ last' = [op |-> "on_key_released", w |-> Head(queue).window, note |-> "done"]
    /\ UNCHANGED <<alive, parent, mapped, override, saveSet, frames, fmapped, geom,
                   grabbed, ptrGrab, buttons, focus, raised, other_wm, kbdGrab,
                   configures, ptr, wmVars>>

\* on_configure_notify (src/src/main.rs 466): empty
on_configure_notify ==
    /\ Dispatch("ConfigureNotify")
    /\ queue' = Tail(queue)
    /\ last' = [op |-> "on_configure_notify", w |-> Head(queue).window, note |-> "done"]
    /\ UNCHANGED <<alive, parent, mapped, override, saveSet, frames, fmapped, geom,
                   grabbed, ptrGrab, buttons, focus, raised, other_wm, kbdGrab,
                   configures, ptr, wmVars>>

\* on_create_notify (src/src/main.rs 468-470): a trace line
on_create_notify ==
    /\ Dispatch("CreateNotify")
    /\ queue' = Tail(queue)
    /\ last' = [op |-> "on_create_notify", w |-> Head(queue).window, note |-> "done"]
    /\ UNCHANGED <<alive, parent, mapped, override, saveSet, frames, fmapped, geom,
                   grabbed, ptrGrab, buttons, focus, raised, other_wm, kbdGrab,
                   configures, ptr, wmVars>>

\* on_reparent_notify (src/src/main.rs 476-478): a trace line
on_reparent_notify ==
    /\ Dispatch("ReparentNotify")
    /\ queue' = Tail(queue)
    /\ last' = [op |-> "on_reparent_notify", w |-> Head(queue).window, note |-> "done"]
    /\ UNCHANGED <<alive, parent, mapped, override, saveSet, frames, fmapped, geom,
                   grabbed, ptrGrab, buttons, focus, raised, other_wm, kbdGrab,
                   configures, ptr, wmVars>>

\* The event types run() has a handler for (src/src/main.rs 185-196)
Recognized ==
    {"ConfigureRequest", "ConfigureNotify", "MapRequest", "UnmapNotify",
     "CreateNotify", "DestroyNotify", "ReparentNotify", "ButtonPress",
     "ButtonRelease", "MotionNotify", "KeyPress", "KeyRelease"}

\* Any other event (src/src/main.rs 197): a warning
on_ignored ==
    /\ pc = "idle"
    /\ queue # <<>>
    /\ Head(queue).type \notin Recognized
    /\ queue' = Tail(queue)
    /\ last' = [op |-> "ignored", w |-> Head(queue).window, note |-> "done"]
    /\ UNCHANGED <<alive, parent, mapped, override, saveSet, frames, fmapped, geom,
                   grabbed, ptrGrab, buttons, focus, raised, other_wm, kbdGrab,
                   configures, ptr, wmVars>>

\* (mutant) on_destroy_notify dropping the destroyed window from the registry
on_destroy_notify_forgets ==
    /\ Dispatch("DestroyNotify")
    /\ queue' = Tail(queue)
    /\ clients' = remove(clients, Head(queue).window)
    /\ last' = [op |-> "on_destroy_notify", w |-> Head(queue).window, note |-> "done"]
    /\ UNCHANGED <<alive, parent, mapped, override, saveSet, frames, fmapped, geom,
                   grabbed, ptrGrab, buttons, focus, raised, other_wm, kbdGrab,
                   configures, ptr, drag_pos_start, drag_frame_pos, WM_DETECTED, pc,
                   cur, top_level_windows, scan_i, nextFrame>>

\* on_destroy_notify (src/src/main.rs 472-474): a trace line
on_destroy_notify ==
    /\ Dispatch("DestroyNotify")
    /\ queue' = Tail(queue)
    /\ last' = [op |-> "on_destroy_notify", w |-> Head(queue).window, note |-> "done"]
    /\ UNCHANGED <<alive, parent, mapped, override, saveSet, frames, fmapped, geom,
                   grabbed, ptrGrab, buttons, focus, raised, other_wm, kbdGrab, configures, ptr,
                   wmVars>>

----------------------------------------------------------------------------
\* The environment: client applications, the user, the kernel

Running == pc \notin {"exited", "panicked", "dead"}

\* Between XGrabServer and XUngrabServer the server serves the manager alone.
ServerGrabbed ==
    \/ pc = "scan"
    \/ pc \in {"frame_save", "frame_reparent", "frame_finish"} /\ cur.created_before_wm

\* Other clients' requests are modelled from the moment the root's redirection
\* is the manager's; what they did before is the initial state.
ClientsMayAct == Running /\ pc # "start" /\ ~ServerGrabbed

\* The bound on the events waiting for the manager
QueueHasRoom == Len(queue) < MaxQueue

\* Frames still to be created for what is already under way: the bound MaxFrames
\* limits the map requests clients make, never the manager.
PendingFrames ==
    Cardinality({i \in 1..Len(queue) : queue[i].type = "MapRequest"})
    + (IF pc = "query"
       THEN Cardinality({w \in alive : w \in mapped /\ w \notin override})
       ELSE 0)

\* XMapWindow by a client: redirected to the manager unless override_redirect
ClientMapWindow(w) ==
    /\ ClientsMayAct
    /\ w \in alive /\ w \notin mapped
    /\ IF w \in override
       THEN mapped' = mapped \cup {w} /\ UNCHANGED queue
       ELSE /\ QueueHasRoom
            /\ nextFrame + PendingFrames < MaxFrames
            /\ queue' = Append(queue, [type |-> "MapRequest", window |-> w])
            /\ UNCHANGED mapped
    /\ UNCHANGED <<alive, parent, override, saveSet, frames, fmapped, geom,
                   grabbed, ptrGrab, buttons, focus, raised, other_wm, kbdGrab, configures, ptr,
                   wmVars, last>>

\* XUnmapWindow by a client
ClientUnmapWindow(w) ==
    /\ ClientsMayAct /\ QueueHasRoom
    /\ w \in alive /\ w \in mapped
    /\ mapped' = mapped \ {w}
    /\ queue' = Append(queue, UnmapNotifyEvent(parent[w], w))
    /\ ptrGrab' = GrabAfterUnviewable({w})
    /\ buttons' = ButtonsAfterUnviewable({w})
    /\ focus' = IF focus = w THEN None ELSE focus
    /\ UNCHANGED <<alive, parent, override, saveSet, frames, fmapped, geom,
                   grabbed, raised, other_wm, kbdGrab, configures, ptr, wmVars, last>>

\* XDestroyWindow by a client, or the client's exit
ClientDestroyWindow(w) ==
    /\ ClientsMayAct
    /\ w \in alive
    /\ alive' = alive \ {w}
    /\ mapped' = mapped \ {w}
    /\ saveSet' = saveSet \ {w}
    /\ grabbed' = grabbed \ {w}
    /\ queue' = (IF w \in mapped
                 THEN Append(queue, UnmapNotifyEvent(parent[w], w))
                 ELSE queue)
                \o <<[type |-> "DestroyNotify", event |-> parent[w], window |-> w]>>
    /\ ptrGrab' = GrabAfterUnviewable({w})
    /\ buttons' = ButtonsAfterUnviewable({w})
    /\ focus' = IF focus = w THEN None ELSE focus
    /\ UNCHANGED <<parent, override, frames, fmapped, geom, raised, other_wm, kbdGrab, configures, ptr,
                   wmVars, last>>

\* XConfigureWindow by a client: redirected to the manager unless override_redirect
ClientConfigureWindow(w, value_mask, changes) ==
    /\ ClientsMayAct /\ QueueHasRoom
    /\ configures < MaxConfigures
    /\ w \in alive /\ w \notin override
    /\ ConfigureOk(w, value_mask, changes)
    /\ "sibling" \notin value_mask => changes.sibling = None
    /\ configures' = configures + 1
    /\ queue' = Append(queue, [type |-> "ConfigureRequest", window |-> w,
                               value_mask |-> value_mask, changes |-> changes])
    /\ UNCHANGED <<alive, parent, mapped, override, saveSet, frames, fmapped, geom,
                   grabbed, ptrGrab, buttons, ptr, focus, raised, other_wm, kbdGrab,
                   wmVars, last>>

\* The pointer is over window w (of a framed client: over its frame)
PointerIn(w) ==
    LET top == IF parent[w] = Root THEN geom[w] ELSE geom[parent[w]] IN
    /\ top.x <= ptr[1] /\ ptr[1] < top.x + top.width
    /\ top.y <= ptr[2] /\ ptr[2] < top.y + top.height

\* A button goes down. With no grab active, Mod1+Button1 over a viewable client
\* that carries the manager's button grab starts the grab; during the grab every
\* button press is reported to the grab window.
UserButtonPress(b) ==
    /\ Running /\ QueueHasRoom
    /\ \E w \in Clients :
        /\ IF ptrGrab = None
           THEN b = Button1 /\ w \in grabbed /\ Viewable(w) /\ PointerIn(w)
           ELSE w = ptrGrab /\ b \notin buttons
        /\ ptrGrab' = w
        /\ buttons' = IF ptrGrab = None THEN {b} ELSE buttons \cup {b}
        /\ queue' = Append(queue, [type |-> "ButtonPress", window |-> w,
                                   x_root |-> ptr[1], y_root |-> ptr[2],
                                   button |-> b])
    /\ UNCHANGED <<alive, parent, mapped, override, saveSet, frames, fmapped, geom,
                   grabbed, ptr, focus, raised, other_wm, kbdGrab, configures, wmVars, last>>

\* A button goes up; the grab ends with the last one.
UserButtonRelease(b) ==
    /\ Running /\ QueueHasRoom
    /\ ptrGrab # None /\ b \in buttons
    /\ buttons' = buttons \ {b}
    /\ ptrGrab' = IF buttons = {b} THEN None ELSE ptrGrab
    /\ queue' = Append(queue, [type |-> "ButtonRelease", window |-> ptrGrab,
                               button |-> b])
    /\ UNCHANGED <<alive, parent, mapped, override, saveSet, frames, fmapped, geom,
                   grabbed, focus, raised, other_wm, kbdGrab, configures, ptr, wmVars, last>>

\* The pointer moves; during the grab (ButtonMotionMask) the manager is told
UserMotion(pos) ==
    /\ Running
    /\ pos # ptr
    /\ ptr' = pos
    /\ IF ptrGrab # None
       THEN /\ QueueHasRoom
            /\ queue' = Append(queue, [type |-> "MotionNotify", window |-> ptrGrab,
                                       x_root |-> pos[1], y_root |-> pos[2],
                                       state |-> buttons])
       ELSE UNCHANGED queue
    /\ UNCHANGED <<alive, parent, mapped, override, saveSet, frames, fmapped, geom,
                   grabbed, ptrGrab, buttons, focus, raised, other_wm, kbdGrab, configures, wmVars, last>>

\* The keyboard grab lasts while its window can still be seen.
KbdGrabActive == kbdGrab # <<>> /\ (kbdGrab[1] = Root \/ Viewable(kbdGrab[1]))

\* A key goes down. With no grab active, Mod1+key starts the passive grab of a
\* window that carries it: Q and Tab on a viewable client that has the focus or
\* the pointer, space on the root. During the grab every key press is reported
\* to the grab window, with Mod1 in its state or not.
UserKeyPress(k, mod1) ==
    /\ Running /\ QueueHasRoom
    /\ \E w \in grabbed :
        /\ IF KbdGrabActive
           THEN w = kbdGrab[1] /\ k # kbdGrab[2] /\ UNCHANGED kbdGrab
           ELSE /\ mod1
                /\ IF w = Root
                   THEN k = "space"
                   ELSE k \in {"Q", "Tab"} /\ Viewable(w) /\ (focus = w \/ PointerIn(w))
                /\ kbdGrab' = <<w, k>>
        /\ queue' = Append(queue, [type |-> "KeyPress", window |-> w, keycode |-> k,
                                   state |-> IF mod1 THEN {Mod1} ELSE {}])
    /\ UNCHANGED <<alive, parent, mapped, override, saveSet, frames, fmapped, geom,
                   grabbed, ptrGrab, buttons, ptr, focus, raised, other_wm,
                   configures, wmVars, last>>

\* The key that started the grab goes up: the grab ends.
UserKeyRelease ==
    /\ Running
    /\ kbdGrab # <<>>
    /\ kbdGrab' = <<>>
    /\ IF KbdGrabActive
       THEN /\ QueueHasRoom
            /\ queue' = Append(queue, [type |-> "KeyRelease", window |-> kbdGrab[1],
                                       keycode |-> kbdGrab[2]])
       ELSE UNCHANGED queue
    /\ UNCHANGED <<alive, parent, mapped, override, saveSet, frames, fmapped, geom,
                   grabbed, ptrGrab, buttons, ptr, focus, raised, other_wm,
                   configures, wmVars, last>>

\* The notifications SubstructureNotify brings besides UnmapNotify and
\* DestroyNotify, and MapNotify, for which run() has no handler.
NotifyTypes == {"CreateNotify", "ConfigureNotify", "ReparentNotify", "MapNotify"}

\* The server reports something that happened to a child of the root or of a
\* frame: a window was created, configured, reparented or mapped.
ServerNotify(type, w) ==
    /\ ClientsMayAct /\ QueueHasRoom
    /\ type \in NotifyTypes
    /\ w \in alive \/ w \in frames
    /\ queue' = Append(queue, [type |-> type, event |-> ParentOf(w), window |-> w])
    /\ UNCHANGED <<alive, parent, mapped, override, saveSet, frames, fmapped, geom,
                   grabbed, ptrGrab, buttons, ptr, focus, raised, other_wm, kbdGrab,
                   configures, wmVars, last>>

\* The manager's process dies (a signal, a lost connection)
Crash ==
    /\ Running /\ pc # "start"
    /\ pc' = "dead"
    /\ last' = [op |-> "crash", w |-> None, note |-> pc]
    /\ CloseDown
    /\ Gone

----------------------------------------------------------------------------
Next ==
    \/ run_probe
    \/ run_query
    \/ run_scan
    \/ frame_save
    \/ frame_reparent
    \/ frame_finish
    \/ on_map_request
    \/ map_window
    \/ on_unmap_notify
    \/ unframe_reparent
    \/ unframe_unsave
    \/ unframe_destroy
    \/ on_button_pressed
    \/ on_button_released
    \/ on_motion_notify
    \/ on_destroy_notify
    \/ \E w \in Clients : ClientMapWindow(w)
    \/ \E w \in Clients : ClientUnmapWindow(w)
    \/ \E w \in Clients : ClientDestroyWindow(w)
    \/ \E b \in Buttons : UserButtonPress(b)
    \/ \E b \in Buttons : UserButtonRelease(b)
    \/ \E pos \in Positions : UserMotion(pos)
    \/ Crash

Spec == Init /\ [][Next]_vars

\* The status the process ends with: main returns after run() returned (0), a
\* panic ends it with 101; None while it runs and when it was killed.
ExitStatus ==
    IF pc = "exited" THEN 0
    ELSE IF pc = "panicked" THEN 101
    ELSE None

----------------------------------------------------------------------------
\* The manager with clients that map and configure their windows: every value
\* mask a client can send. A sibling is named only together with a window that
\* is a sibling of the configured one; a framed client has none, so the masks
\* are those without CWSibling.
ValueMasks == SUBSET Fields
RequestedChanges ==
    {[x |-> 1, y |-> 2, width |-> 2, height |-> 3, border_width |-> 1,
      sibling |-> s, stack_mode |-> "Below"] : s \in Clients \cup {None}}

NextConfigure ==
    \/ run_probe
    \/ run_query
    \/ run_scan
    \/ frame_save
    \/ frame_reparent
    \/ frame_finish
    \/ on_map_request
    \/ map_window
    \/ on_configure_request
    \/ \E w \in Clients : ClientMapWindow(w)
    \/ /\ configures < MaxConfigures
       /\ \E w \in Clients, m \in ValueMasks, c \in RequestedChanges :
             ClientConfigureWindow(w, m, c)

SpecConfigure == Init /\ [][NextConfigure]_vars

----------------------------------------------------------------------------
\* The manager with its keyboard: clients map, unmap and are killed, the user
\* presses the grabbed keys.
NextKeys ==
    \/ run_probe
    \/ run_query
    \/ run_scan
    \/ frame_save
    \/ frame_reparent
    \/ frame_finish
    \/ on_map_request
    \/ map_window
    \/ on_unmap_notify
    \/ unframe_reparent
    \/ unframe_unsave
    \/ unframe_destroy
    \/ on_destroy_notify
    \/ on_key_pressed
    \/ on_key_released
    \/ \E w \in Clients : ClientMapWindow(w)
    \/ \E w \in Clients : ClientUnmapWindow(w)
    \/ \E k \in Keys, mod1 \in BOOLEAN : UserKeyPress(k, mod1)
    \/ UserKeyRelease

SpecKeys == Init /\ [][NextKeys]_vars

----------------------------------------------------------------------------
\* The manager with the notifications it only looks at.
NextObserve ==
    \/ run_probe
    \/ run_query
    \/ run_scan
    \/ frame_save
    \/ frame_reparent
    \/ frame_finish
    \/ on_map_request
    \/ map_window
    \/ on_unmap_notify
    \/ unframe_reparent
    \/ unframe_unsave
    \/ unframe_destroy
    \/ on_configure_notify
    \/ on_create_notify
    \/ on_destroy_notify
    \/ on_reparent_notify
    \/ on_ignored
    \/ \E w \in Clients : ClientMapWindow(w)
    \/ \E w \in Clients : ClientUnmapWindow(w)
    \/ \E w \in Clients : ClientDestroyWindow(w)
    \/ \E type \in NotifyTypes, w \in Clients \cup FrameIds : ServerNotify(type, w)

SpecObserve == Init /\ [][NextObserve]_vars

----------------------------------------------------------------------------
\* Properties

\* The manager waits in XNextEvent: every handler has run to completion.
EventBoundary == pc = "idle"

\* C1: after startup and any sequence of handled events, no two registry
\* entries have the same client id and no two have the same frame id.
C1_RegistryUnique ==
    EventBoundary =>
        \A i, j \in 1..Len(clients) :
            i # j => clients[i][1] # clients[j][1] /\ clients[i][2] # clients[j][2]

\* C2: at every event boundary, for every registry entry <<c, f>>, f is a live
\* frame window, the parent of c is f, and c is the only client inside f.
C2_EntryMatchesTree ==
    EventBoundary =>
        \A i \in 1..Len(clients) :
            LET c == clients[i][1]
                f == clients[i][2]
            IN  /\ f \in frames
                /\ parent[c] = f
                /\ \A c2 \in alive : parent[c2] = f => c2 = c

\* Every client that is inside a frame is in the save-set.
SaveSetCoversFramed == \A w \in alive : parent[w] # Root => w \in saveSet

\* C3: at every point of execution, between the requests of frame and unframe
\* too, every client whose parent is a frame is in the save-set (frame adds it
\* before it reparents), so the end of the manager's connection at any step
\* destroys no client window.
C3_CrashSafety ==
    /\ []SaveSetCoversFramed
    /\ [][(Running /\ ~Running') => alive' = alive]_vars

\* C3 witness: frame() stands between XReparentWindow and XMapWindow(frame);
\* the client is inside the new frame and in the save-set.
C3_Witness ==
    /\ pc = "frame_finish"
    /\ cur.w \in alive
    /\ parent[cur.w] = cur.frame
    /\ cur.w \in saveSet

\* C4: a MapRequest for a client that is in the registry creates no frame
\* window, does not reparent the client and adds no registry entry.
C4_MapRequestFramesOnce ==
    [][(on_map_request /\ contains(clients, Head(queue).window)) =>
          /\ frames' = frames
          /\ nextFrame' = nextFrame
          /\ parent' = parent
          /\ pc' # "frame_save"]_vars

\* C5: an UnmapNotify starts unframe only when its event window is not the root
\* and its window is a registered client; any other UnmapNotify changes neither
\* the registry, the drag state, the save-set nor the window tree, and the
\* manager goes on to the next event.
C5_UnmapNotifyGuard ==
    [][on_unmap_notify =>
          LET e == Head(queue) IN
          IF e.event # Root /\ contains(clients, e.window)
          THEN pc' = "unframe_reparent" /\ cur'.w = e.window
          ELSE /\ pc' = "idle"
               /\ UNCHANGED <<clients, drag_pos_start, drag_frame_pos, saveSet,
                              alive, parent, mapped, frames, fmapped, geom>>]_vars

\* C5 witness: the UnmapNotify that the reparenting of a mapped client sends
\* to the root has been ignored, and the client is still registered and framed.
C5_Witness ==
    /\ pc = "idle"
    /\ last.op = "on_unmap_notify"
    /\ last.note = "ignored_root"
    /\ contains(clients, last.w)
    /\ last.w \in alive
    /\ parent[last.w] = get(clients, last.w)
    /\ last.w \in saveSet

\* C6: after startup no protocol error ends the manager: a request that fails
\* because its window has disappeared is logged and the loop goes on.
C6_ProtocolErrorNotFatal ==
    ~(pc = "panicked" /\ last.note = "XGetWindowAttributes")

\* C7: no sequence of events drives a handler into a failed precondition: the
\* window of a button press, a motion or an unframe is in the registry, and a
\* motion finds the drag state present.
C7_NoPreconditionViolation ==
    ~(pc = "panicked" /\ last.note \in {"assert", "assert_contains", "assert_drag",
                                        "unwrap"})

\* C8: a ConfigureRequest for window w gives the fields its value mask selects
\* the requested values, on the frame of w when w is registered and on w itself,
\* leaves every other field of both as it was, and touches no other window.
C8_ConfigurePassThrough ==
    [][on_configure_request =>
          LET e == Head(queue)
              f == get(clients, e.window)
              hit == {e.window} \cup (IF f = None THEN {} ELSE {f})
          IN  /\ \A win \in hit : \A fld \in Fields :
                    geom'[win][fld] = IF fld \in e.value_mask
                                      THEN e.changes[fld]
                                      ELSE geom[win][fld]
              /\ \A win \in DOMAIN geom : win \notin hit => geom'[win] = geom[win]
              /\ pc' = "idle"]_vars

\* C9: every motion event delivered while Button1 is held moves the frame of
\* its client to F0 + (P1 - P0), P0 and F0 the pointer and the frame position
\* of the press, and leaves the frame's size as it was.
C9_DragTranslation ==
    [][(on_motion_notify /\ Button1 \in Head(queue).state) =>
          LET e == Head(queue)
              f == get(clients, e.window)
          IN  /\ f # None
              /\ drag_pos_start # NoDrag
              /\ drag_frame_pos # NoDrag
              /\ pc' = "idle"
              /\ geom'[f] = [geom[f] EXCEPT
                                !.x = drag_frame_pos[1] + (e.x_root - drag_pos_start[1]),
                                !.y = drag_frame_pos[2] + (e.y_root - drag_pos_start[2])]]_vars

\* C10: once a button release has been handled the drag state is absent, and a
\* motion event handled before the next button press is a no-op.
C10_MotionAfterRelease ==
    /\ [][on_button_released => drag_pos_start' = NoDrag /\ drag_frame_pos' = NoDrag]_vars
    /\ [][(on_motion_notify /\ drag_pos_start = NoDrag) =>
             pc' = "idle" /\ UNCHANGED <<geom, clients, frames, parent>>]_vars

\* The client reached by n cycle keys, each pressed on the client the one
\* before it chose.
RECURSIVE cycle_n(_, _, _)
cycle_n(list, w, n) ==
    IF n = 0 THEN w ELSE cycle_n(list, cycle_target(list, w)[1], n - 1)

\* C11: with registry entries c1..cN in insertion order, the cycle key pressed
\* on c_i raises the frame of and focuses c_((i mod N)+1), and N cycles in a
\* row, each on the client the one before chose, come back to the first client.
C11_CycleOrder ==
    /\ [][(on_key_pressed /\ Head(queue).keycode = "Tab" /\ Mod1 \in Head(queue).state) =>
             \A i \in 1..Len(clients) :
                 clients[i][1] = Head(queue).window =>
                     /\ raised' = clients[(i % Len(clients)) + 1][2]
                     /\ focus' = clients[(i % Len(clients)) + 1][1]]_vars
    /\ [](\A i \in 1..Len(clients) :
             cycle_n(clients, clients[i][1], Len(clients)) = clients[i][1])

\* The windows of XQueryTree's list that are viewable and not override_redirect
Eligible(w) == Viewable(w) /\ w \notin override
ScanExpected == SelectSeq(top_level_windows, Eligible)

\* C12: when the startup scan finishes, the registry holds exactly the
\* pre-existing top-level windows that were viewable and not override_redirect,
\* each once, in the order the server reported them, and there is a frame for
\* these windows only.
C12_StartupScan ==
    [][(pc = "scan" /\ pc' = "idle") =>
          /\ {top_level_windows[i] : i \in 1..Len(top_level_windows)} = alive
          /\ Len(clients') = Len(ScanExpected)
          /\ \A i \in 1..Len(clients') : clients'[i][1] = ScanExpected[i]
          /\ frames' = {clients'[i][2] : i \in 1..Len(clients')}
          /\ Cardinality(frames') = Len(clients')
          /\ \A w \in alive : (w \in override \/ w \notin mapped) => parent'[w] = Root]_vars

\* C12 witness: the scan is over; of two pre-existing windows it framed the
\* viewable one and left the other, override_redirect or unmapped, alone.
C12_Witness ==
    /\ pc = "idle"
    /\ last.note = "scanned"
    /\ Len(top_level_windows) = 2
    /\ Len(clients) = 1
    /\ Cardinality(frames) = 1
    /\ \E w \in alive : parent[w] = Root /\ ~contains(clients, w)

\* C13: when the probe sees the access error of another manager, startup stops
\* before anything is created: no frame, no reparented client, nothing in the
\* save-set, no key or button grab, an empty registry, and the event loop is
\* never entered.
C13_ProbeAbort ==
    /\ other_wm => pc \in {"start", "exited"} \/ last.note = "XOpenDisplay"
    /\ WM_DETECTED =>
          /\ pc = "exited"
          /\ frames = {}
          /\ \A w \in alive : parent[w] = Root
          /\ saveSet = {}
          /\ grabbed = {}
          /\ clients = <<>>

\* C13 witness: the manager has left after the probe, with a viewable window
\* on the screen that it would have framed.
C13_Witness ==
    /\ pc = "exited"
    /\ WM_DETECTED
    /\ last.note = "wm_detected"
    /\ \E w \in alive : w \in mapped /\ w \notin override

\* C14: the process ends with a status that is not 0 when the display cannot be
\* opened and when the probe finds another manager; in every other case it
\* does not end on its own.
C14_StartupOutcome ==
    /\ last.note = "XOpenDisplay" => ExitStatus \notin {0, None}
    /\ last.note = "wm_detected" => ExitStatus \notin {0, None}
    /\ pc \in {"exited", "panicked"} => last.note \in {"XOpenDisplay", "wm_detected"}

\* A step of the manager that is neither the insert of frame() nor the remove
\* of unframe(), and after which the process is still there.
OtherStep == Running' /\ ~frame_finish /\ ~unframe_destroy

\* C15: the registry grows by exactly one entry for each frame() that creates
\* a frame, stays as it is for a frame() that skips, shrinks by exactly one for
\* each unframe(), is changed by no other handler, and an entry is removed only
\* when its client has unmapped while registered.
C15_RegistrySize ==
    /\ [][frame_finish => Len(clients') = Len(clients) + 1]_vars
    /\ [][unframe_destroy => Len(clients') = Len(clients) - 1]_vars
    /\ [][OtherStep => clients' = clients]_vars
    /\ [][(on_unmap_notify /\ pc' = "unframe_reparent") =>
             /\ contains(clients, Head(queue).window)
             /\ Head(queue).window \notin mapped]_vars

\* C16: handling a CreateNotify, DestroyNotify, ConfigureNotify, ReparentNotify
\* or an event of a type the manager does not know leaves the registry and the
\* drag state as they were, sends no request to the server, and the loop goes
\* on with the next event.
C16_Observational ==
    [][(\/ on_create_notify
        \/ on_destroy_notify
        \/ on_configure_notify
        \/ on_reparent_notify
        \/ on_ignored) =>
          /\ UNCHANGED <<clients, drag_pos_start, drag_frame_pos>>
          /\ UNCHANGED <<alive, parent, mapped, saveSet, frames, fmapped, geom,
                         grabbed, focus, raised>>
          /\ queue' = Tail(queue)
          /\ pc' = "idle"]_vars

\* C16 witness: the DestroyNotify of a window that is still in the registry
\* has been handled, and the entry is still there.
C16_Witness ==
    /\ pc = "idle"
    /\ last.op = "on_destroy_notify"
    /\ contains(clients, last.w)
    /\ last.w \notin alive

\* C17 (as stated): within unframe the client is out of the save-set no later
\* than the request that reparents it from its frame back to the root.
C17_UnsaveBeforeReparent ==
    [][(unframe_reparent /\ cur.w \in alive /\ parent[cur.w] = cur.frame) =>
          cur.w \notin saveSet']_vars

\* C17 (amended): within unframe the client is reparented back to the root
\* strictly before it is removed from the save-set: the reparent leaves the
\* save-set as it was, and the removal finds a living client at the root.
C17_ReparentBeforeUnsave ==
    /\ [][unframe_reparent =>
            /\ saveSet' = saveSet
            /\ cur.w \in alive => parent'[cur.w] = Root]_vars
    /\ [][unframe_unsave =>
            /\ cur.w \in alive => parent[cur.w] = Root
            /\ cur.w \notin saveSet']_vars

\* C17 witness: unframe has reparented a framed client to the root and is
\* about to remove it from the save-set, where it still is.
C17_Witness ==
    /\ pc = "unframe_unsave"
    /\ last = [op |-> "unframe", w |-> cur.w, note |-> "XReparentWindow"]
    /\ cur.w \in alive
    /\ parent[cur.w] = Root
    /\ cur.w \in saveSet
    /\ clients = <<<<cur.w, cur.frame>>>>

\* The frame ids the registry holds
RegistryFrames == {clients[i][2] : i \in 1..Len(clients)}

\* frame() has created a frame it has not registered yet
InFrame == pc \in {"frame_save", "frame_reparent", "frame_finish"}

\* C18: no frame leaks. Between two events the living frame windows are the
\* frame ids of the registry, one entry each; inside frame() there is one more,
\* the one being registered; everywhere else (the startup scan after a skipped
\* window and the steps of unframe included) there is none besides the
\* registry's, so a frame comes with an insert and goes with a remove.
C18_NoFrameLeak ==
    Running =>
        IF InFrame
        THEN /\ cur.frame \notin RegistryFrames
             /\ frames = RegistryFrames \cup {cur.frame}
             /\ Cardinality(RegistryFrames) = Len(clients)
        ELSE /\ frames = RegistryFrames
             /\ Cardinality(frames) = Len(clients)

\* C18 witness: between two events, after an unframe destroyed one frame and
\* removed its entry while another client stays framed.
C18_Witness ==
    /\ EventBoundary
    /\ last.op = "unframe" /\ last.note = "unframed"
    /\ Len(clients) = 1
    /\ frames = {clients[1][2]}
    /\ clients[1][1] # last.w

\* list without its i-th entry
Without(list, i) == SubSeq(list, 1, i - 1) \o SubSeq(list, i + 1, Len(list))

\* a comes before b in list (both in it)
Before(list, a, b) == find(list, a, 1) < find(list, b, 1)

\* C19: the registry's order is stable. frame() puts the new entry after all
\* the others, which stay where they were; unframe() takes out one entry, of
\* the client it unframes, and the others keep their order; so two clients
\* that stay in the registry come in the same order before and after.
C19_OrderStable ==
    /\ [][frame_finish =>
            /\ Len(clients') = Len(clients) + 1
            /\ SubSeq(clients', 1, Len(clients)) = clients
            /\ clients'[Len(clients')] = <<cur.w, cur.frame>>]_vars
    /\ [][unframe_destroy =>
            \E i \in 1..Len(clients) :
                /\ clients[i][1] = cur.w
                /\ clients' = Without(clients, i)]_vars
    /\ [][(frame_finish \/ unframe_destroy) =>
            \A a, b \in Clients \ {cur.w} :
                (contains(clients, a) /\ contains(clients, b)) =>
                    /\ contains(clients', a) /\ contains(clients', b)
                    /\ Before(clients', a, b) <=> Before(clients, a, b)]_vars

\* C19 witness: after one client left and came back, it is framed again and
\* its new entry stands behind the entry of the client that stayed.
C19_Witness ==
    /\ Len(clients) = 2
    /\ last.op = "frame" /\ last.note = "framed"
    /\ clients[2][1] = last.w
    /\ clients[1][1] # last.w
    /\ nextFrame = 3

====
